---- MODULE Spec2Model ----
(***************************************************************************)
(* Frame resource lifecycle and presentation pipeline of the three         *)
(* Context variants of the workspace:                                      *)
(*   "compute" : src/src/app/context.rs          (compute pass, 2 slots)   *)
(*   "raster"  : src/glowing_dots/src/app/context.rs (render pass, 1 slot) *)
(*   "v1"      : src/test_v1/src/app/context.rs  (static geometry, 0 slots)*)
(* Every winit handler is one atomic action (the event loop is single      *)
(* threaded). A handler is the sequence of device, queue, surface and      *)
(* window calls its code makes; Exec runs them in program order, each with *)
(* its effect, and stops at a panic. `ops` is what the last handler ran.   *)
(***************************************************************************)
EXTENDS Integers, Sequences, FiniteSets, TLC

\* ------------------------------------------------------------ bounds
MaxFrames == 4      \* redraw handler calls explored
MaxResizes == 2     \* resize handler calls explored
MaxClock == 102     \* largest clock reading explored (ms)
E2EFrames == 100    \* frames of the end-to-end run
E2EFrameMs == 17    \* time between two frames of the end-to-end run (ms)

\* ------------------------------------------------- program constants
NUM_FRAMES == 2
PRINT_INTERVAL_MS == 50
INITIAL_INNER_SIZE == 500

Variants == {"compute", "raster", "v1"}

\* Sizes a window can report (physical pixels); 0 happens when minimised.
Dims == {0, INITIAL_INNER_SIZE, INITIAL_INNER_SIZE + 140}

\* Time that can pass between two consecutive readings of the clock (ms).
Deltas == {0, PRINT_INTERVAL_MS, PRINT_INTERVAL_MS + 1}

\* Lists of formats a surface can report in its capabilities.
FormatLists == {<<"Bgra8UnormSrgb", "Rgba8Unorm">>, <<"Rgba8Unorm", "Bgra8Unorm">>}

\* Results of Surface::get_current_texture.
AcquireResults == {"ok", "timeout", "outdated", "lost", "out_of_memory"}

VARIABLES
    variant,            \* which Context variant runs
    args_turbo,         \* "--turbo" is among the process arguments
    caps_formats,       \* formats of the surface capabilities
    phase,              \* "start" (context None), "running", "exited", "panicked"
    config,             \* Context.config
    surface,            \* the surface's live configuration
    bind_group_layout,  \* Context.bind_group_layout (object id)
    pipeline,           \* Context.compute_pipeline / render_pipeline
    frame_data,         \* Context.frame_data
    frame_data_index,   \* Context.frame_data_index
    time_start,         \* Context.time_start
    time_last_draw,     \* Context.time_last_draw
    time_last_print,    \* Context.time_last_print
    clock,              \* last reading of SystemTime::now()
    next_id,            \* next object handle the device hands out
    redraw_pending,     \* window.request_redraw() not yet delivered
    submitted,          \* command buffers the queue has received
    presented,          \* images the surface has been asked to present
    stdout,             \* frame-rate readouts written so far
    ops,                \* calls made by the last handler, in order
    last_call,          \* the last handler and its argument
    redraw_calls,       \* redraw handler calls so far
    resize_calls,       \* resize handler calls so far
    index_trace,        \* frame_data_index at the start of each completed frame
    last_acquire,       \* the last result of get_current_texture
    acquire_errors,     \* Err results get_current_texture has returned
    repeat_resize,      \* the last call was a resize with the size of the call before
    last_submission,    \* commands of the last command buffer given to queue.submit
    in_flight,          \* submissions the GPU has not completed, oldest first
    points_position,    \* the positions computed by the last position update
    window_open,        \* a window exists, so that window events can be dispatched
    dropped             \* fields of the context dropped so far, in order

vars == <<variant, args_turbo, caps_formats, phase, config, surface,
          bind_group_layout, pipeline, frame_data, frame_data_index,
          time_start, time_last_draw, time_last_print, clock, next_id,
          redraw_pending, submitted, presented, stdout, ops, last_call,
          redraw_calls, resize_calls, index_trace, last_acquire, acquire_errors,
          repeat_resize, last_submission, in_flight, points_position, window_open,
          dropped>>

\* ------------------------------------------------------------ helpers
NoConfig == [width |-> 0, height |-> 0, format |-> "none",
             present_mode |-> "none", usage |-> {}]
NoTexture == [id |-> 0, width |-> 0, height |-> 0, format |-> "none", usage |-> {}]
NoPipeline == [id |-> 0, kind |-> "none", layout |-> 0]

\* Number of frame slots of a variant.
NumSlots(v) == IF v = "compute" THEN NUM_FRAMES ELSE IF v = "raster" THEN 1 ELSE 0

\* The size taken as reported, without the max(1).
ClampDimUnclamped(x) == x

\* u32::max(1)
ClampDim(x) == IF x >= 1 THEN x ELSE 1

\* Context::get_window_size: the window's inner size, clamped.
GetWindowSize(inner) == [width |-> ClampDim(inner.width), height |-> ClampDim(inner.height)]

\* The configuration with the last reported format.
ConfigureSurfaceLastFormat(v, size, turbo, formats) ==
    [width |-> size.width,
     height |-> size.height,
     format |-> formats[Len(formats)],
     usage |-> {"RENDER_ATTACHMENT"},
     present_mode |-> IF v = "compute"
                        THEN (IF turbo THEN "AutoNoVsync" ELSE "AutoVsync")
                        ELSE IF v = "raster" THEN "Mailbox" ELSE "Fifo"]

\* Surface::get_default_config followed by the variant's overrides.
ConfigureSurface(v, size, turbo, formats) ==
    [width |-> size.width,
     height |-> size.height,
     format |-> IF v = "compute" THEN "Rgba8Unorm" ELSE formats[1],
     usage |-> IF v = "compute" THEN {"RENDER_ATTACHMENT", "COPY_DST"}
                                ELSE {"RENDER_ATTACHMENT"},
     present_mode |-> IF v = "compute"
                        THEN (IF turbo THEN "AutoNoVsync" ELSE "AutoVsync")
                        ELSE IF v = "raster" THEN "Mailbox" ELSE "Fifo"]

\* device.create_texture of the offscreen target, under handle id.
CreateTexture(id, cfg) ==
    [id |-> id, width |-> cfg.width, height |-> cfg.height,
     format |-> "Rgba8Unorm", usage |-> {"STORAGE_BINDING", "COPY_SRC"}]

\* device.create_bind_group: binding 0 the buffer, binding 1 a view of tex.
CreateBindGroup(id, layout, buffer_id, view_id, tex_id) ==
    [id |-> id, layout |-> layout, binding0 |-> buffer_id,
     binding1 |-> [id |-> view_id, texture |-> tex_id]]

\* size_of_val(STARTING_POSITION): 4 elements of PointPosition, align(16).
NUM_POINTS == 4
POINT_STRIDE == 16
PointsBufferSize == NUM_POINTS * POINT_STRIDE

\* size_of::<[f32; 2]>(): the bytes of a PointPosition that hold data.
POINT_BYTES == 8

\* What the last write left in a buffer: the time the positions were
\* computed for, the byte range handed to the queue and the byte offsets
\* of the elements stored into it.
NoContents == [written |-> FALSE, elapsed |-> 0, offset |-> 0, len |-> 0, elements |-> {}]

\* A buffer of the data bytes alone, without the padding of align(16).
CreatePointsBufferUnpadded(id) ==
    [id |-> id, size |-> NUM_POINTS * POINT_BYTES, contents |-> NoContents]

\* device.create_buffer for the point positions (not mapped, zero filled).
CreatePointsBuffer(id) ==
    [id |-> id, size |-> PointsBufferSize, contents |-> NoContents]

\* One FrameData of create_frame_data, its four objects taking handles from base.
CreateFrameSlot(base, cfg, layout) ==
    [points_position_buffer |-> CreatePointsBuffer(base),
     texture |-> CreateTexture(base + 1, cfg),
     bind_group |-> CreateBindGroup(base + 3, layout, base, base + 2, base + 1)]

\* Every slot made of the same buffer, texture and bind group.
CreateFrameDataShared(base, cfg, layout) ==
    [i \in 1..NUM_FRAMES |-> CreateFrameSlot(base, cfg, layout)]

\* Context::create_frame_data: std::array::from_fn over NUM_FRAMES slots.
CreateFrameData(base, cfg, layout) ==
    [i \in 1..NUM_FRAMES |-> CreateFrameSlot(base + 4 * (i - 1), cfg, layout)]

\* The single position buffer and bind group of the rasterized variant
\* (binding 1 is the colour buffer, there is no offscreen texture).
CreateRasterSlot(base, layout) ==
    <<[points_position_buffer |-> CreatePointsBuffer(base),
       texture |-> NoTexture,
       bind_group |-> [id |-> base + 3, layout |-> layout, binding0 |-> base,
                       binding1 |-> [id |-> base + 1, texture |-> 0]]]>>

\* A call of a handler; slot is the frame slot it works on (0: none).
\* arg holds the numbers the call passed, where they are recorded.
Call(name) == [op |-> name, slot |-> 0, arg |-> << >>]
SlotCall(name, i) == [op |-> name, slot |-> i, arg |-> << >>]

\* Context::new leaving the surface as created.
NewOpsNoConfigure(v) ==
    <<Call("create_window"), Call("create_surface"), Call("request_adapter"),
      Call("request_device"), Call("create_pipeline")>>

\* Calls of Context::new, in program order.
NewOps(v) ==
    IF v = "compute"
      THEN <<Call("create_window"), Call("create_surface"), Call("request_adapter"),
             Call("request_device"), Call("configure"),
             Call("create_bind_group_layout"), Call("create_frame_data"),
             Call("create_pipeline")>>
      ELSE IF v = "raster"
        THEN <<Call("create_window"), Call("create_surface"), Call("request_adapter"),
               Call("request_device"), Call("create_buffer"),
               Call("create_bind_group_layout"), Call("create_bind_group"),
               Call("create_pipeline"), Call("configure")>>
        ELSE <<Call("create_window"), Call("create_surface"), Call("request_adapter"),
               Call("request_device"), Call("create_pipeline"), Call("configure")>>

\* Whether Context::new configures the surface, going by its calls.
InitialSurface(calls, cfg) ==
    IF \E i \in 1..Len(calls) : calls[i].op = "configure"
      THEN [configured |-> TRUE, config |-> cfg]
      ELSE [configured |-> FALSE, config |-> NoConfig]

\* The fields of Context that hold a window-system or GPU object, each with
\* the position in Context::new of the statement that acquires it
\* (request_device returns device and queue together).
AcquireRank(v) ==
    IF v = "compute"
      THEN [window |-> 1, surface |-> 2, device |-> 3, queue |-> 3,
            bind_group_layout |-> 4, frame_data |-> 5, compute_pipeline |-> 6]
      ELSE IF v = "raster"
        THEN [window |-> 1, surface |-> 2, device |-> 3, queue |-> 3,
              points_position_buffer |-> 4, points_bind_group |-> 5,
              render_pipeline |-> 6, vertex_buffer |-> 7, index_buffer |-> 8]
        ELSE [window |-> 1, instance |-> 2, surface |-> 3, adapter |-> 4,
              device |-> 5, queue |-> 5, shader |-> 6, pipeline_layout |-> 7,
              render_pipeline |-> 8, vertex_buffer |-> 9, index_buffer |-> 10]

\* The fields declared with the window ahead of everything else.
FieldOrderWindowFirst(v) ==
    <<"window", "time_last_print", "time_last_draw", "time_start",
      "bind_group_layout", "frame_data", "frame_data_index", "queue", "device",
      "compute_pipeline", "surface", "config">>

\* The fields of struct Context in declaration order, which is the order
\* in which Rust drops them.
FieldOrder(v) ==
    IF v = "compute"
      THEN <<"time_last_print", "time_last_draw", "time_start",
             "bind_group_layout", "frame_data", "frame_data_index", "queue",
             "device", "compute_pipeline", "surface", "window", "config">>
      ELSE IF v = "raster"
        THEN <<"time_last_print", "time_last_draw", "time_start",
               "points_position", "points_position_buffer", "points_bind_group",
               "vertex_buffer", "index_buffer", "queue", "device",
               "render_pipeline", "surface", "window", "config">>
        ELSE <<"window", "instance", "surface", "adapter", "device", "queue",
               "shader", "pipeline_layout", "render_pipeline", "config",
               "vertex_buffer", "index_buffer">>

\* A window that exists before the first event.
WindowOpenAtStartTrue == TRUE

\* main builds the event loop and the Application and nothing else: no
\* window exists when run_app starts to deliver events.
WindowOpenAtStart == FALSE

Init ==
    /\ variant \in Variants
    /\ args_turbo \in BOOLEAN
    /\ caps_formats \in FormatLists
    /\ phase = "start"
    /\ config = NoConfig
    /\ surface = [configured |-> FALSE, config |-> NoConfig]
    /\ bind_group_layout = 0
    /\ pipeline = NoPipeline
    /\ frame_data = << >>
    /\ frame_data_index = 0
    /\ time_start = 0
    /\ time_last_draw = 0
    /\ time_last_print = 0
    /\ clock = 0
    /\ next_id = 1
    /\ redraw_pending = FALSE
    /\ submitted = 0
    /\ presented = 0
    /\ stdout = << >>
    /\ ops = << >>
    /\ last_call = [op |-> "none", width |-> 0, height |-> 0]
    /\ redraw_calls = 0
    /\ resize_calls = 0
    /\ index_trace = << >>
    /\ last_acquire = "none"
    /\ acquire_errors = 0
    /\ repeat_resize = FALSE
    /\ last_submission = << >>
    /\ in_flight = << >>
    /\ points_position = << >>
    /\ window_open = WindowOpenAtStart
    /\ dropped = << >>

\* The context exists in every phase but the first.
ContextIsNoneAlways == TRUE

\* self.context.is_none()
ContextIsNone == phase = "start"

\* Application::resumed: creates the context when there is none.
\* inner is the size the new window reports.
Resumed(inner) ==
    /\ ContextIsNone
    /\ phase \in {"start", "running"}
    /\ LET size == GetWindowSize(inner)
           cfg == ConfigureSurface(variant, size, args_turbo, caps_formats)
           layout == next_id
       IN /\ config' = cfg
          /\ surface' = InitialSurface(NewOps(variant), cfg)
          /\ bind_group_layout' = IF variant = "v1" THEN 0 ELSE layout
          /\ frame_data' = IF variant = "compute"
                             THEN CreateFrameData(next_id + 1, cfg, layout)
                             ELSE IF variant = "raster"
                               THEN CreateRasterSlot(next_id + 1, layout)
                               ELSE << >>
          /\ pipeline' = [id |-> next_id + 1 + 4 * NumSlots(variant),
                          kind |-> IF variant = "compute" THEN "compute" ELSE "render",
                          layout |-> IF variant = "v1" THEN 0 ELSE layout]
          /\ next_id' = next_id + 2 + 4 * NumSlots(variant)
    /\ phase' = "running"
    /\ frame_data_index' = 0
    /\ time_start' = clock
    /\ time_last_draw' = clock
    /\ time_last_print' = clock
    /\ ops' = NewOps(variant)
    /\ last_call' = [op |-> "new", width |-> inner.width, height |-> inner.height]
    /\ window_open' = (window_open \/ \E i \in 1..Len(NewOps(variant)) :
                                          NewOps(variant)[i].op = "create_window")
    /\ index_trace' = << >>
    /\ repeat_resize' = FALSE
    /\ UNCHANGED <<variant, args_turbo, caps_formats, points_position, clock, redraw_pending,
                   submitted, presented, stdout, redraw_calls, resize_calls,
                   last_acquire, acquire_errors, last_submission, in_flight,
                   dropped>>

\* Application::resumed with a context already present: the handler makes
\* no call and the context stays as it is.
ResumedAgain ==
    /\ ~ContextIsNone
    /\ phase = "running"
    /\ ops' = << >>
    /\ last_call' = [op |-> "resumed", width |-> 0, height |-> 0]
    /\ repeat_resize' = FALSE
    /\ UNCHANGED <<variant, args_turbo, caps_formats, points_position, window_open, phase, config, surface,
                   bind_group_layout, pipeline, frame_data, frame_data_index,
                   time_start, time_last_draw, time_last_print, clock, next_id,
                   redraw_pending, submitted, presented, stdout, redraw_calls,
                   resize_calls, index_trace, last_acquire, acquire_errors,
                   last_submission, in_flight, dropped>>

\* The event loop delivers a window event: there is a window it is for, and
\* the loop has neither exited nor unwound.
WindowEvent == window_open /\ phase \in {"start", "running"}

\* self.context.as_mut().unwrap() of window_event on a context that is
\* None: the handler panics before it looks at the event.
UnwrapNone ==
    /\ phase' = "panicked"
    /\ ops' = << >>
    /\ last_call' = [op |-> "unwrap_none", width |-> 0, height |-> 0]
    /\ repeat_resize' = FALSE
    /\ UNCHANGED <<variant, args_turbo, caps_formats, points_position, window_open, config,
                   surface, bind_group_layout, pipeline, frame_data,
                   frame_data_index, time_start, time_last_draw, time_last_print,
                   clock, next_id, redraw_pending, submitted, presented, stdout,
                   redraw_calls, resize_calls, index_trace, last_acquire,
                   acquire_errors, last_submission, in_flight, dropped>>

\* ------------------------------------------------------- call effects
\* The index advanced by the number of slots instead of by one.
NextIndexByLen(i, n) == (i + n) % n

\* The index wrapped one past the last slot.
NextIndexPastEnd(i, n) == (i + 1) % (n + 1)

\* frame_data_index = (frame_data_index + 1) % frame_data.len()
NextIndex(i, n) == (i + 1) % n

\* The new size put into a configuration with the default mode.
ResizeConfigDefaultMode(cfg, w, h) ==
    [cfg EXCEPT !.width = ClampDim(w), !.height = ClampDim(h), !.present_mode = "Fifo"]

\* Context::resize, first two statements: the clamped size goes into config.
ResizeConfig(cfg, w, h) == [cfg EXCEPT !.width = ClampDim(w), !.height = ClampDim(h)]

\* update_points_position_buffer: the whole buffer is rewritten with the
\* positions computed for the time elapsed since time_start.
WritePositions(buffer, now, start) ==
    [buffer EXCEPT !.contents =
        [written |-> TRUE, elapsed |-> now - start,
         offset |-> 0, len |-> buffer.size,
         elements |-> {i * POINT_STRIDE : i \in 0..(NUM_POINTS - 1)}]]

\* The buffers of all slots rewritten.
WriteSlotAll(fd, idx, now, start) ==
    [i \in 1..Len(fd) |->
        [fd[i] EXCEPT !.points_position_buffer =
                          WritePositions(fd[i].points_position_buffer, now, start)]]

\* The buffer of slot idx (0-based) rewritten, every other slot as it was.
WriteSlot(fd, idx, now, start) ==
    [i \in 1..Len(fd) |->
        IF i = idx + 1
          THEN [fd[i] EXCEPT !.points_position_buffer =
                                 WritePositions(fd[i].points_position_buffer, now, start)]
          ELSE fd[i]]

\* A readout on every frame.
ShouldPrintAlways(now, last_print) == TRUE

\* A readout also when exactly 50 ms passed.
ShouldPrintAtInterval(now, last_print) == now - last_print >= PRINT_INTERVAL_MS

\* update_timing: a readout is due when more than 50 ms passed since the last.
ShouldPrint(now, last_print) == now - last_print > PRINT_INTERVAL_MS

\* The readout written by update_timing: 1 / (now - time_last_draw).
Readout(now, last_draw) == [at |-> now, frame_ms |-> now - last_draw]

\* SystemTime::duration_since(earlier) is an Err, which the callers unwrap,
\* when earlier is later than the time it is called on.
DurationFails(now, earlier) == now < earlier

\* update_timing that moves time_last_print but not time_last_draw.
UpdateTimingStaleDraw(st, now) ==
    IF ShouldPrint(now, st.time_last_print)
      THEN [st EXCEPT !.clock = now,
                      !.stdout = Append(@, Readout(now, st.time_last_draw)),
                      !.time_last_print = now]
      ELSE [st EXCEPT !.clock = now]

\* update_timing with the clock read as now.
UpdateTiming(st, now) ==
    IF DurationFails(now, st.time_last_print)
      THEN [st EXCEPT !.clock = now, !.phase = "panicked"]
      ELSE IF ShouldPrint(now, st.time_last_print)
        THEN IF DurationFails(now, st.time_last_draw)
               THEN [st EXCEPT !.clock = now, !.phase = "panicked"]
               ELSE [st EXCEPT !.clock = now,
                               !.stdout = Append(@, Readout(now, st.time_last_draw)),
                               !.time_last_print = now,
                               !.time_last_draw = now]
        ELSE [st EXCEPT !.clock = now, !.time_last_draw = now]

NoView == [id |-> 0, texture |-> 0]

\* The part of the state a handler works on, at the handler's start.
Cur ==
    [phase |-> phase, config |-> config, surface |-> surface,
     bind_group_layout |-> bind_group_layout, pipeline |-> pipeline,
     encoder |-> << >>, last_submission |-> last_submission,
     in_flight |-> in_flight,
     frame_data |-> frame_data, frame_data_index |-> frame_data_index,
     time_last_draw |-> time_last_draw, time_last_print |-> time_last_print,
     clock |-> clock, next_id |-> next_id, redraw_pending |-> redraw_pending,
     submitted |-> submitted, presented |-> presented, stdout |-> stdout,
     last_acquire |-> last_acquire, acquire_errors |-> acquire_errors,
     acquired |-> FALSE, view |-> NoView, trace |-> << >>]

\* The workgroup size of the compute shader in x and y.
WORKGROUP_SIZE == 8

\* The quotient rounded down.
DivFloor(a, b) == a \div b

\* u32::div_ceil
DivCeil(a, b) == IF a % b > 0 THEN (a \div b) + 1 ELSE a \div b

\* A command recorded into the frame's encoder.
Command(name, arg) == [cmd |-> name, arg |-> arg]

\* dispatch_compute_pass / the render pass of redraw: the pass binds the
\* pipeline and, where there are frame slots, the active slot's bind group.
RecordPass(st) ==
    <<Command("set_pipeline", st.pipeline.id)>>
    \o (IF Len(st.frame_data) > 0
          THEN <<Command("set_bind_group",
                         st.frame_data[st.frame_data_index + 1].bind_group.id)>>
          ELSE << >>)

\* encoder.copy_texture_to_texture: the copy reads the active slot's texture.
RecordCopy(st) ==
    <<Command("copy_texture_to_texture",
              st.frame_data[st.frame_data_index + 1].texture.id)>>

\* The call c as made from st, with the numbers it passes: the workgroup
\* counts of dispatch_workgroups, the extent of copy_texture_to_texture.
Traced(st, c) ==
    CASE c.op = "dispatch_workgroups" ->
           [c EXCEPT !.arg = <<DivCeil(st.config.width, WORKGROUP_SIZE),
                               DivCeil(st.config.height, WORKGROUP_SIZE), 1>>]
      [] c.op = "copy_texture_to_texture" ->
           [c EXCEPT !.arg = <<st.config.width, st.config.height, 1>>]
      [] OTHER -> c

\* What a submission keeps the GPU reading until it completes: the
\* position buffer of the slot the frame worked on (0: none).
Submission(st) ==
    [frame |-> st.submitted + 1,
     buffer |-> IF Len(st.frame_data) > 0
                  THEN st.frame_data[st.frame_data_index + 1].points_position_buffer.id
                  ELSE 0]

\* A failed acquisition skips the image and lets the frame go on.
AcquireImageSkipFailed(st, result) ==
    [st EXCEPT !.acquired = (result = "ok"), !.last_acquire = result,
               !.acquire_errors = IF result = "ok" THEN @ ELSE @ + 1]

\* surface.get_current_texture().unwrap(): any Err panics.
AcquireImage(st, result) ==
    IF result = "ok"
      THEN [st EXCEPT !.acquired = TRUE, !.last_acquire = result]
      ELSE [st EXCEPT !.phase = "panicked", !.last_acquire = result,
                      !.acquire_errors = @ + 1]

\* Effect of one call c on st. in holds what the environment decides during
\* the handler: the event's size, the result of get_current_texture and the
\* time that passes before each reading of the clock.
Step(st, c, in) ==
    CASE c.op = "set_config_size" ->
           [st EXCEPT !.config = ResizeConfig(st.config, in.width, in.height)]
      [] c.op = "configure" ->
           [st EXCEPT !.surface = [configured |-> TRUE, config |-> st.config]]
      [] c.op = "create_texture" ->
           [st EXCEPT !.frame_data[c.slot].texture = CreateTexture(st.next_id, st.config),
                      !.next_id = @ + 1]
      [] c.op = "create_view" ->
           [st EXCEPT !.view = [id |-> st.next_id,
                                texture |-> st.frame_data[c.slot].texture.id],
                      !.next_id = @ + 1]
      [] c.op = "create_bind_group" ->
           [st EXCEPT !.frame_data[c.slot].bind_group =
                          CreateBindGroup(st.next_id, st.bind_group_layout,
                                          st.frame_data[c.slot].points_position_buffer.id,
                                          st.view.id, st.view.texture),
                      !.next_id = @ + 1]
      [] c.op = "request_redraw" ->
           [st EXCEPT !.redraw_pending = TRUE]
      [] c.op = "get_current_texture" ->
           AcquireImage(st, in.acq)
      [] c.op = "write_buffer" ->
           IF DurationFails(st.clock + in.d1, time_start)
             THEN [st EXCEPT !.clock = st.clock + in.d1, !.phase = "panicked"]
             ELSE [st EXCEPT !.clock = st.clock + in.d1,
                             !.frame_data = WriteSlot(@, st.frame_data_index,
                                                      st.clock + in.d1, time_start)]
      [] c.op = "create_pipeline" ->
           [st EXCEPT !.pipeline = [id |-> st.next_id, kind |-> st.pipeline.kind,
                                    layout |-> st.bind_group_layout],
                      !.next_id = @ + 1]
      [] c.op \in {"dispatch_workgroups", "draw_indexed"} ->
           [st EXCEPT !.encoder = @ \o RecordPass(st)]
      [] c.op = "copy_texture_to_texture" ->
           [st EXCEPT !.encoder = @ \o RecordCopy(st)]
      [] c.op = "submit" ->
           [st EXCEPT !.submitted = @ + 1, !.last_submission = st.encoder,
                      !.in_flight = Append(@, Submission(st)),
                      !.encoder = << >>]
      [] c.op = "wait_idle" ->
           [st EXCEPT !.in_flight = << >>]
      [] c.op = "present" ->
           [st EXCEPT !.presented = @ + 1, !.acquired = FALSE]
      [] c.op = "update_timing" ->
           UpdateTiming(st, st.clock + in.d2)
      [] c.op = "advance_index" ->
           [st EXCEPT !.frame_data_index = NextIndex(@, Len(st.frame_data))]
      [] OTHER -> st

\* The calls of prog run in order from st; a panic ends the handler.
\* (Each intermediate state is bound as a value before the next call runs.)
RECURSIVE Exec(_, _, _)
Exec(prog, st, in) ==
    IF prog = << >> \/ st.phase = "panicked"
      THEN st
      ELSE CHOOSE r \in
               {Exec(Tail(prog), x, in) :
                   x \in {[Step(st, Head(prog), in)
                              EXCEPT !.trace = Append(st.trace,
                                                      Traced(st, Head(prog)))]}} : TRUE

\* The handler's result becomes the state.
Commit(st) ==
    /\ phase' = st.phase
    /\ config' = st.config
    /\ surface' = st.surface
    /\ bind_group_layout' = st.bind_group_layout
    /\ pipeline' = st.pipeline
    /\ last_submission' = st.last_submission
    /\ in_flight' = st.in_flight
    /\ frame_data' = st.frame_data
    /\ frame_data_index' = st.frame_data_index
    /\ time_last_draw' = st.time_last_draw
    /\ time_last_print' = st.time_last_print
    /\ clock' = st.clock
    /\ next_id' = st.next_id
    /\ redraw_pending' = st.redraw_pending
    /\ submitted' = st.submitted
    /\ presented' = st.presented
    /\ stdout' = st.stdout
    /\ last_acquire' = st.last_acquire
    /\ acquire_errors' = st.acquire_errors
    /\ ops' = st.trace

\* ------------------------------------------------------------ resize
\* The loop of Context::resize over slots i..n: for each a new texture, a
\* view of it and a new bind group.
RECURSIVE RegenerateCalls(_, _)
RegenerateCalls(i, n) ==
    IF i > n THEN << >>
    ELSE <<SlotCall("create_texture", i), SlotCall("create_view", i),
           SlotCall("create_bind_group", i)>> \o RegenerateCalls(i + 1, n)

\* resize regenerating the first slot only.
ResizeProgramFirstSlotOnly(v) ==
    <<Call("set_config_size"), Call("configure")>>
    \o (IF v = "compute" THEN RegenerateCalls(1, 1) ELSE << >>)
    \o <<Call("request_redraw")>>

\* resize regenerating every texture and view but no bind group.
ResizeProgramKeepBindGroups(v) ==
    <<Call("set_config_size"), Call("configure")>>
    \o (IF v = "compute"
          THEN SelectSeq(RegenerateCalls(1, NUM_FRAMES),
                         LAMBDA c : c.op # "create_bind_group")
          ELSE << >>)
    \o <<Call("request_redraw")>>

\* resize creating the textures before the new size is in config.
ResizeProgramStaleSize(v) ==
    (IF v = "compute" THEN RegenerateCalls(1, NUM_FRAMES) ELSE << >>)
    \o <<Call("set_config_size"), Call("configure"), Call("request_redraw")>>

\* resize asking for the redraw before it reconfigures the surface.
ResizeProgramRedrawFirst(v) ==
    <<Call("set_config_size"), Call("request_redraw"), Call("configure")>>
    \o (IF v = "compute" THEN RegenerateCalls(1, NUM_FRAMES) ELSE << >>)

\* resize building a new pipeline for the new size.
ResizeProgramNewPipeline(v) ==
    <<Call("set_config_size"), Call("configure"), Call("create_pipeline")>>
    \o (IF v = "compute" THEN RegenerateCalls(1, NUM_FRAMES) ELSE << >>)
    \o <<Call("request_redraw")>>

\* resize that records the new size and leaves the surface as configured.
ResizeProgramNoConfigure(v) ==
    <<Call("set_config_size")>>
    \o (IF v = "compute" THEN RegenerateCalls(1, NUM_FRAMES) ELSE << >>)
    \o <<Call("request_redraw")>>

\* resize that also moves on to the next slot.
ResizeProgramAdvance(v) ==
    <<Call("set_config_size"), Call("configure")>>
    \o (IF v = "compute"
          THEN RegenerateCalls(1, NUM_FRAMES) \o <<Call("advance_index")>>
          ELSE << >>)
    \o <<Call("request_redraw")>>

\* Context::resize of variant v, in program order.
ResizeProgram(v) ==
    <<Call("set_config_size"), Call("configure")>>
    \o (IF v = "compute" THEN RegenerateCalls(1, NUM_FRAMES) ELSE << >>)
    \o <<Call("request_redraw")>>

\* WindowEvent::Resized(w, h) -> Context::resize.
Resize(w, h) ==
    /\ WindowEvent
    /\ resize_calls < MaxResizes
    /\ IF ContextIsNone
         THEN UnwrapNone
         ELSE
           /\ \E st \in {Exec(ResizeProgram(variant), Cur,
                               [acq |-> "ok", d1 |-> 0, d2 |-> 0, width |-> w, height |-> h])} :
                 Commit(st)
           /\ last_call' = [op |-> "resize", width |-> w, height |-> h]
           /\ repeat_resize' = (last_call = [op |-> "resize", width |-> w, height |-> h])
           /\ resize_calls' = resize_calls + 1
           /\ UNCHANGED <<variant, args_turbo, caps_formats, points_position, window_open, time_start, redraw_calls,
                          index_trace, dropped>>

\* ------------------------------------------------------------ redraw
\* redraw of variant v as a sequence of call names.
Calls(names) == [i \in 1..Len(names) |-> Call(names[i])]

\* redraw that never presents the acquired image.
RedrawProgramNoPresent(v) ==
    IF v = "compute"
      THEN Calls(<<"get_current_texture", "write_buffer", "dispatch_workgroups",
                   "copy_texture_to_texture", "submit", "update_timing",
                   "advance_index", "request_redraw">>)
      ELSE IF v = "raster"
        THEN Calls(<<"write_buffer", "get_current_texture", "draw_indexed", "submit",
                     "update_timing", "request_redraw">>)
        ELSE Calls(<<"get_current_texture", "draw_indexed", "submit">>)

\* redraw that does not ask for the next frame.
RedrawProgramNoRequest(v) ==
    IF v = "compute"
      THEN Calls(<<"get_current_texture", "write_buffer", "dispatch_workgroups",
                   "copy_texture_to_texture", "submit", "present", "update_timing",
                   "advance_index">>)
      ELSE IF v = "raster"
        THEN Calls(<<"write_buffer", "get_current_texture", "draw_indexed", "submit",
                     "present", "update_timing">>)
        ELSE Calls(<<"get_current_texture", "draw_indexed", "submit", "present">>)

\* redraw that writes the positions after the submission.
RedrawProgramLateWrite(v) ==
    IF v = "compute"
      THEN Calls(<<"get_current_texture", "dispatch_workgroups",
                   "copy_texture_to_texture", "submit", "write_buffer", "present",
                   "update_timing", "advance_index", "request_redraw">>)
      ELSE IF v = "raster"
        THEN Calls(<<"get_current_texture", "draw_indexed", "submit", "write_buffer",
                     "present", "update_timing", "request_redraw">>)
        ELSE Calls(<<"get_current_texture", "draw_indexed", "submit", "present">>)

\* redraw that presents the image before it submits the commands.
RedrawProgramPresentFirst(v) ==
    IF v = "compute"
      THEN Calls(<<"get_current_texture", "write_buffer", "dispatch_workgroups",
                   "copy_texture_to_texture", "present", "submit", "update_timing",
                   "advance_index", "request_redraw">>)
      ELSE IF v = "raster"
        THEN Calls(<<"write_buffer", "get_current_texture", "draw_indexed", "present",
                     "submit", "update_timing", "request_redraw">>)
        ELSE Calls(<<"get_current_texture", "draw_indexed", "present", "submit">>)

\* redraw that stays on the slot it worked on.
RedrawProgramNoAdvance(v) ==
    IF v = "compute"
      THEN Calls(<<"get_current_texture", "write_buffer", "dispatch_workgroups",
                   "copy_texture_to_texture", "submit", "present", "update_timing",
                   "request_redraw">>)
      ELSE IF v = "raster"
        THEN Calls(<<"write_buffer", "get_current_texture", "draw_indexed", "submit",
                     "present", "update_timing", "request_redraw">>)
        ELSE Calls(<<"get_current_texture", "draw_indexed", "submit", "present">>)

\* redraw that first waits until the GPU has completed all its work.
RedrawProgramWaitIdle(v) ==
    IF v = "compute"
      THEN Calls(<<"wait_idle", "get_current_texture", "write_buffer",
                   "dispatch_workgroups", "copy_texture_to_texture", "submit",
                   "present", "update_timing", "advance_index", "request_redraw">>)
      ELSE IF v = "raster"
        THEN Calls(<<"wait_idle", "write_buffer", "get_current_texture",
                     "draw_indexed", "submit", "present", "update_timing",
                     "request_redraw">>)
        ELSE Calls(<<"wait_idle", "get_current_texture", "draw_indexed", "submit",
                     "present">>)

\* Context::redraw of variant v, in program order.
RedrawProgram(v) ==
    IF v = "compute"
      THEN <<Call("get_current_texture"), Call("write_buffer"),
             Call("dispatch_workgroups"), Call("copy_texture_to_texture"),
             Call("submit"), Call("present"), Call("update_timing"),
             Call("advance_index"), Call("request_redraw")>>
      ELSE IF v = "raster"
        THEN <<Call("write_buffer"), Call("get_current_texture"), Call("draw_indexed"),
               Call("submit"), Call("present"), Call("update_timing"),
               Call("request_redraw")>>
        ELSE <<Call("get_current_texture"), Call("draw_indexed"), Call("submit"),
               Call("present")>>

\* WindowEvent::RedrawRequested -> Context::redraw. Delivering the event
\* uses up the pending request. acq is the result of get_current_texture,
\* d1 and d2 the times that pass before the handler's readings of the clock.
\* Explored for at most max_frames calls and clock readings up to max_clock.
RedrawUpTo(max_frames, max_clock, acq, d1, d2) ==
    /\ WindowEvent
    /\ redraw_calls < max_frames
    /\ clock + d1 + d2 <= max_clock
    /\ IF ContextIsNone
         THEN UnwrapNone
         ELSE
           /\ \E st \in {Exec(RedrawProgram(variant), [Cur EXCEPT !.redraw_pending = FALSE],
                               [acq |-> acq, d1 |-> d1, d2 |-> d2, width |-> 0, height |-> 0])} :
                 /\ Commit(st)
                 /\ index_trace' = IF st.phase = "running" /\ Len(frame_data) > 0
                                     THEN Append(index_trace, frame_data_index)
                                     ELSE index_trace
           /\ last_call' = [op |-> "redraw", width |-> 0, height |-> 0]
           /\ repeat_resize' = FALSE
           /\ redraw_calls' = redraw_calls + 1
           /\ UNCHANGED <<variant, args_turbo, caps_formats, points_position, window_open, time_start, resize_calls,
                          dropped>>

RedrawRequested(acq, d1, d2) == RedrawUpTo(MaxFrames, MaxClock, acq, d1, d2)

\* Escape pressed or WindowEvent::CloseRequested: event_loop.exit().
Exit ==
    /\ WindowEvent
    /\ IF ContextIsNone
         THEN UnwrapNone
         ELSE
           /\ phase' = "exited"
           /\ ops' = <<Call("exit")>>
           /\ last_call' = [op |-> "exit", width |-> 0, height |-> 0]
           /\ repeat_resize' = FALSE
           /\ UNCHANGED <<variant, args_turbo, caps_formats, points_position, window_open, config, surface,
                          bind_group_layout, pipeline, frame_data, frame_data_index,
                          time_start, time_last_draw, time_last_print, clock, next_id,
                          redraw_pending, submitted, presented, stdout, redraw_calls,
                          resize_calls, index_trace, last_acquire, acquire_errors,
                          last_submission, in_flight, dropped>>

\* run_app has returned (or a panic unwinds) and the Application goes out
\* of scope: the context's fields are dropped in declaration order.
Teardown ==
    /\ phase \in {"exited", "panicked"}
    /\ dropped = << >>
    /\ dropped' = FieldOrder(variant)
    /\ window_open' = FALSE
    /\ UNCHANGED <<variant, args_turbo, caps_formats, points_position, phase, config, surface,
                   bind_group_layout, pipeline, frame_data, frame_data_index,
                   time_start, time_last_draw, time_last_print, clock, next_id,
                   redraw_pending, submitted, presented, stdout, ops, last_call,
                   redraw_calls, resize_calls, index_trace, last_acquire,
                   acquire_errors, repeat_resize, last_submission, in_flight>>

\* The GPU completes its oldest submission. The program neither waits for
\* this nor is told of it.
GpuComplete ==
    /\ in_flight # << >>
    /\ in_flight' = Tail(in_flight)
    /\ UNCHANGED <<variant, args_turbo, caps_formats, points_position, window_open, phase, config, surface,
                   bind_group_layout, pipeline, frame_data, frame_data_index,
                   time_start, time_last_draw, time_last_print, clock, next_id,
                   redraw_pending, submitted, presented, stdout, ops, last_call,
                   redraw_calls, resize_calls, index_trace, last_acquire,
                   acquire_errors, repeat_resize, last_submission, dropped>>

Next ==
    \/ \E w \in Dims, h \in Dims : Resumed([width |-> w, height |-> h])
    \/ ResumedAgain
    \/ \E w \in Dims, h \in Dims : Resize(w, h)
    \/ \E acq \in AcquireResults, d1 \in Deltas, d2 \in Deltas : RedrawRequested(acq, d1, d2)
    \/ Exit
    \/ Teardown

Spec == Init /\ [][Next]_vars

\* The handlers with fewer inputs, for the properties of what eventually happens:
\* a 500 x 500 window, resizes to (0,0) and (500,500), frames that take no
\* time or just over the print interval, acquisition that succeeds or is lost.
LiveDims == {0, INITIAL_INNER_SIZE}
LiveDeltas == {0, PRINT_INTERVAL_MS + 1}
LiveAcquireResults == {"ok", "lost"}

NextLive ==
    \/ Resumed([width |-> INITIAL_INNER_SIZE, height |-> INITIAL_INNER_SIZE])
    \/ \E w \in LiveDims : Resize(w, w)
    \/ \E acq \in LiveAcquireResults, d \in LiveDeltas : RedrawRequested(acq, 0, d)
    \/ Exit
    \/ Teardown

\* A redraw request that is pending gets delivered.
PendingRedraw ==
    /\ redraw_pending
    /\ \E acq \in LiveAcquireResults, d \in LiveDeltas : RedrawRequested(acq, 0, d)

\* The event loop delivers RedrawRequested after window.request_redraw().
LiveSpec == Init /\ [][NextLive]_vars /\ WF_vars(PendingRedraw)

\* The end-to-end run: a 500 x 500 window, then nothing but redraws, one
\* every E2EFrameMs.
NextE2E ==
    \/ Resumed([width |-> INITIAL_INNER_SIZE, height |-> INITIAL_INNER_SIZE])
    \/ \E acq \in AcquireResults :
          RedrawUpTo(E2EFrames, E2EFrames * E2EFrameMs, acq, E2EFrameMs, 0)

SpecE2E == Init /\ [][NextE2E]_vars

\* The handlers with the inputs of NextLive, and the GPU completing its
\* work at any time in between.
NextGpu ==
    \/ Resumed([width |-> INITIAL_INNER_SIZE, height |-> INITIAL_INNER_SIZE])
    \/ \E w \in LiveDims : Resize(w, w)
    \/ \E acq \in LiveAcquireResults, d \in LiveDeltas : RedrawRequested(acq, 0, d)
    \/ GpuComplete
    \/ Exit

SpecGpu == Init /\ [][NextGpu]_vars

\* --------------------------------------------------------- positions
\* The position update computes in f32; here the numbers are fractions in
\* lowest terms, [num, den] with den > 0, and the arithmetic is exact.
RECURSIVE GCD(_, _)
GCD(a, b) == IF b = 0 THEN a ELSE GCD(b, a % b)
Abs(x) == IF x < 0 THEN -x ELSE x
Rat(n, d) == LET g == GCD(Abs(n), d) IN [num |-> n \div g, den |-> d \div g]
RatAdd(a, b) ==
    LET g == GCD(a.den, b.den)
    IN Rat(a.num * (b.den \div g) + b.num * (a.den \div g), (a.den \div g) * b.den)
RatSub(a, b) == RatAdd(a, [num |-> -b.num, den |-> b.den])
RatMul(a, b) == Rat(a.num * b.num, a.den * b.den)
RatLeq(a, b) == a.num * b.den <= b.num * a.den

\* STARTING_POSITION: the corners of a square, white, red, green, blue.
STARTING_POSITION ==
    <<[x |-> Rat(-1, 2), y |-> Rat(-1, 2)], [x |-> Rat(1, 2), y |-> Rat(-1, 2)],
      [x |-> Rat(1, 2), y |-> Rat(1, 2)], [x |-> Rat(-1, 2), y |-> Rat(1, 2)]>>

\* r.sin() and r.cos() for r = -t * TAU / 4 with t in seconds, at the
\* elapsed times t (in ms) where both are fractions: the quarter turns, and
\* the times that come, to the nearest ms, to an angle of a Pythagorean
\* triple.
SinCosTable ==
    {[t |-> 0, sin |-> 0, cos |-> 1, den |-> 1],
     [t |-> 181, sin |-> -7, cos |-> 24, den |-> 25],
     [t |-> 251, sin |-> -5, cos |-> 12, den |-> 13],
     [t |-> 312, sin |-> -8, cos |-> 15, den |-> 17],
     [t |-> 410, sin |-> -3, cos |-> 4, den |-> 5],
     [t |-> 484, sin |-> -20, cos |-> 21, den |-> 29],
     [t |-> 516, sin |-> -21, cos |-> 20, den |-> 29],
     [t |-> 590, sin |-> -4, cos |-> 3, den |-> 5],
     [t |-> 688, sin |-> -15, cos |-> 8, den |-> 17],
     [t |-> 749, sin |-> -12, cos |-> 5, den |-> 13],
     [t |-> 819, sin |-> -24, cos |-> 7, den |-> 25],
     [t |-> 1000, sin |-> -1, cos |-> 0, den |-> 1],
     [t |-> 1181, sin |-> -24, cos |-> -7, den |-> 25],
     [t |-> 1251, sin |-> -12, cos |-> -5, den |-> 13],
     [t |-> 1312, sin |-> -15, cos |-> -8, den |-> 17],
     [t |-> 1410, sin |-> -4, cos |-> -3, den |-> 5],
     [t |-> 1484, sin |-> -21, cos |-> -20, den |-> 29],
     [t |-> 1516, sin |-> -20, cos |-> -21, den |-> 29],
     [t |-> 1590, sin |-> -3, cos |-> -4, den |-> 5],
     [t |-> 1688, sin |-> -8, cos |-> -15, den |-> 17],
     [t |-> 1749, sin |-> -5, cos |-> -12, den |-> 13],
     [t |-> 1819, sin |-> -7, cos |-> -24, den |-> 25],
     [t |-> 2000, sin |-> 0, cos |-> -1, den |-> 1],
     [t |-> 2181, sin |-> 7, cos |-> -24, den |-> 25],
     [t |-> 2251, sin |-> 5, cos |-> -12, den |-> 13],
     [t |-> 2312, sin |-> 8, cos |-> -15, den |-> 17],
     [t |-> 2410, sin |-> 3, cos |-> -4, den |-> 5],
     [t |-> 2484, sin |-> 20, cos |-> -21, den |-> 29],
     [t |-> 2516, sin |-> 21, cos |-> -20, den |-> 29],
     [t |-> 2590, sin |-> 4, cos |-> -3, den |-> 5],
     [t |-> 2688, sin |-> 15, cos |-> -8, den |-> 17],
     [t |-> 2749, sin |-> 12, cos |-> -5, den |-> 13],
     [t |-> 2819, sin |-> 24, cos |-> -7, den |-> 25],
     [t |-> 3000, sin |-> 1, cos |-> 0, den |-> 1],
     [t |-> 3181, sin |-> 24, cos |-> 7, den |-> 25],
     [t |-> 3251, sin |-> 12, cos |-> 5, den |-> 13],
     [t |-> 3312, sin |-> 15, cos |-> 8, den |-> 17],
     [t |-> 3410, sin |-> 4, cos |-> 3, den |-> 5],
     [t |-> 3484, sin |-> 21, cos |-> 20, den |-> 29],
     [t |-> 3516, sin |-> 20, cos |-> 21, den |-> 29],
     [t |-> 3590, sin |-> 3, cos |-> 4, den |-> 5],
     [t |-> 3688, sin |-> 8, cos |-> 15, den |-> 17],
     [t |-> 3749, sin |-> 5, cos |-> 12, den |-> 13],
     [t |-> 3819, sin |-> 7, cos |-> 24, den |-> 25]}

ElapsedSamples == {e.t : e \in SinCosTable}

SinCos(t) ==
    LET e == CHOOSE e \in SinCosTable : e.t = t
    IN [sin |-> Rat(e.sin, e.den), cos |-> Rat(e.cos, e.den)]

\* No scaling.
ScaleFactorOne(sin_r) == Rat(1, 1)

\* scale_factor = (sin_r + 1.0) / 2.0
ScaleFactor(sin_r) == RatMul(RatAdd(sin_r, Rat(1, 1)), Rat(1, 2))

\* sin_r *= scale_factor
ScaledSin(sin_r) == RatMul(sin_r, ScaleFactor(sin_r))

\* The cosine left as it is.
ScaledCosUnscaled(sin_r, cos_r) == cos_r

\* cos_r *= scale_factor
ScaledCos(sin_r, cos_r) == RatMul(cos_r, ScaleFactor(sin_r))

\* [x * cos_r - y * sin_r, x * sin_r + y * cos_r]
RotatePoint(pos, sin_r, cos_r) ==
    [x |-> RatSub(RatMul(pos.x, cos_r), RatMul(pos.y, sin_r)),
     y |-> RatAdd(RatMul(pos.x, sin_r), RatMul(pos.y, cos_r))]

\* The four positions for the elapsed time t, in the order of
\* STARTING_POSITION.
PointsPosition(t) ==
    LET r == SinCos(t)
    IN [i \in 1..NUM_POINTS |->
           RotatePoint(STARTING_POSITION[i], ScaledSin(r.sin), ScaledCos(r.sin, r.cos))]

\* The position update of a frame at the clock reading clock.
UpdatePositions ==
    /\ points_position = << >>
    /\ points_position' = PointsPosition(clock - time_start)
    /\ UNCHANGED <<variant, args_turbo, caps_formats, window_open, phase, config, surface,
                   bind_group_layout, pipeline, frame_data, frame_data_index,
                   time_start, time_last_draw, time_last_print, clock, next_id,
                   redraw_pending, submitted, presented, stdout, ops, last_call,
                   redraw_calls, resize_calls, index_trace, last_acquire,
                   acquire_errors, repeat_resize, last_submission, in_flight,
                   dropped>>

\* The position update on its own: the two variants that have it, at each
\* elapsed time of the table.
InitTransform ==
    /\ variant \in {"compute", "raster"}
    /\ args_turbo \in BOOLEAN
    /\ caps_formats = CHOOSE l \in FormatLists : TRUE
    /\ phase = "start"
    /\ config = NoConfig
    /\ surface = [configured |-> FALSE, config |-> NoConfig]
    /\ bind_group_layout = 0
    /\ pipeline = NoPipeline
    /\ frame_data = << >>
    /\ frame_data_index = 0
    /\ time_start = 0
    /\ time_last_draw = 0
    /\ time_last_print = 0
    /\ clock \in ElapsedSamples
    /\ next_id = 1
    /\ redraw_pending = FALSE
    /\ submitted = 0
    /\ presented = 0
    /\ stdout = << >>
    /\ ops = << >>
    /\ last_call = [op |-> "none", width |-> 0, height |-> 0]
    /\ redraw_calls = 0
    /\ resize_calls = 0
    /\ index_trace = << >>
    /\ last_acquire = "none"
    /\ acquire_errors = 0
    /\ repeat_resize = FALSE
    /\ last_submission = << >>
    /\ in_flight = << >>
    /\ points_position = << >>
    /\ window_open = WindowOpenAtStart
    /\ dropped = << >>

NextTransform == UpdatePositions

SpecTransform == InitTransform /\ [][NextTransform]_vars

\* -------------------------------------------------------- properties
Created == phase # "start"
Slots == 1..Len(frame_data)
Has(seq, name) == \E i \in 1..Len(seq) : seq[i].op = name
Count(seq, name) == Cardinality({i \in 1..Len(seq) : seq[i].op = name})
\* Every name call of seq comes before every other call of it.
Before(seq, name, other) ==
    \A i, j \in 1..Len(seq) : (seq[i].op = name /\ seq[j].op = other) => i < j
ResizeStep == resize_calls' = resize_calls + 1
RedrawStep == redraw_calls' = redraw_calls + 1
\* Handles and views held by the frame slots.
TextureIds == {frame_data[i].texture.id : i \in Slots}
BindGroupIds == {frame_data[i].bind_group.id : i \in Slots}
ViewIds == {frame_data[i].bind_group.binding1.id : i \in Slots}

\* C1: once the context exists, the recorded and the live surface
\* configuration have width >= 1 and height >= 1 in every state, and a
\* dimension reported as 0 by the window (at creation or in a resize) is
\* configured as 1, so resize(0,0) leaves (1,1).
C1_SizeAtLeastOne ==
    Created =>
        /\ config.width >= 1 /\ config.height >= 1
        /\ surface.config.width >= 1 /\ surface.config.height >= 1
        /\ (last_call.op \in {"new", "resize"} /\ last_call.width = 0) => config.width = 1
        /\ (last_call.op \in {"new", "resize"} /\ last_call.height = 0) => config.height = 1

C1_Witness ==
    /\ last_call = [op |-> "resize", width |-> 0, height |-> 0]
    /\ config.width = 1 /\ config.height = 1
    /\ presented >= 1

\* C2: in the compute variant, whenever a redraw can start, every slot's
\* texture has the width and height of the current configuration and the
\* slot's bind group binds a view of that texture.
C2_SlotsMatchConfig ==
    (variant = "compute" /\ phase = "running") =>
        \A i \in Slots :
            /\ frame_data[i].texture.width = config.width
            /\ frame_data[i].texture.height = config.height
            /\ frame_data[i].bind_group.binding1.texture = frame_data[i].texture.id

C2_Witness ==
    /\ variant = "compute" /\ phase = "running"
    /\ resize_calls = 2 /\ presented >= 2
    /\ last_call.op = "resize"
    /\ config.width # config.height
    /\ frame_data_index = 1

\* C3: a resize in the compute variant gives every slot, whatever the slot
\* index, a texture, a view and a bind group that did not exist before.
C3_ResizeReplacesAll ==
    [][(ResizeStep /\ variant = "compute") =>
          \A i \in 1..NUM_FRAMES :
              /\ frame_data'[i].texture.id >= next_id
              /\ frame_data'[i].bind_group.id >= next_id
              /\ frame_data'[i].bind_group.binding1.id >= next_id
              /\ frame_data'[i].texture.id \notin TextureIds
              /\ frame_data'[i].bind_group.id \notin BindGroupIds
              /\ frame_data'[i].bind_group.binding1.id \notin ViewIds]_vars

C3_Witness ==
    /\ variant = "compute"
    /\ last_call.op = "resize"
    /\ frame_data_index = 1
    /\ \A i \in Slots : frame_data[i].texture.id > 9

\* C4: in the compute variant every completed redraw moves the slot index
\* from i to (i + 1) mod NUM_FRAMES and nothing else moves it (resizes may
\* come in between), so the index at the start of a frame is again the
\* index NUM_FRAMES completed frames later.
C4_RoundRobin ==
    variant = "compute" =>
        LET full == Append(index_trace, frame_data_index)
        IN /\ \A k \in 1..Len(index_trace) : full[k + 1] = (full[k] + 1) % NUM_FRAMES
           /\ \A k \in 1..(Len(full) - NUM_FRAMES) : full[k + NUM_FRAMES] = full[k]

C4_Witness ==
    /\ variant = "compute"
    /\ Len(index_trace) >= NUM_FRAMES + 1
    /\ resize_calls >= 1
    /\ last_call.op = "redraw" /\ phase = "running"

\* C5: as long as every image acquisition succeeded, after k redraw calls
\* no call has panicked, the queue received k submissions, the surface k
\* present calls, and the slot index is k mod N (N = 2 in the compute
\* variant, 1 in the rasterized one); in particular from a (500,500) window.
C5_EndToEnd ==
    (Created /\ acquire_errors = 0) =>
        /\ phase # "panicked"
        /\ submitted = redraw_calls
        /\ presented = redraw_calls
        /\ variant # "v1" => frame_data_index = redraw_calls % NumSlots(variant)

C5_Witness ==
    /\ variant = "compute" /\ acquire_errors = 0
    /\ resize_calls = 0
    /\ config.width = INITIAL_INNER_SIZE /\ config.height = INITIAL_INNER_SIZE
    /\ redraw_calls = E2EFrames /\ presented = E2EFrames
    /\ time_last_draw = E2EFrames * E2EFrameMs
    /\ time_last_draw > time_last_print /\ time_last_print > time_start

\* C6: a resize with the same size as the resize right before it leaves the
\* configuration (recorded and live) as it was, regenerates per-slot
\* resources equivalent to the ones it replaces (same dimensions, format and
\* usage, each bind group over the slot's own buffer and the slot's new
\* texture), and changes nothing else but the pending redraw request.
SlotEquivalent(old, new) ==
    /\ new.points_position_buffer = old.points_position_buffer
    /\ new.texture.width = old.texture.width
    /\ new.texture.height = old.texture.height
    /\ new.texture.format = old.texture.format
    /\ new.texture.usage = old.texture.usage
    /\ new.bind_group.layout = old.bind_group.layout
    /\ new.bind_group.binding0 = new.points_position_buffer.id
    /\ old.bind_group.binding0 = old.points_position_buffer.id
    /\ variant = "compute" => /\ new.bind_group.binding1.texture = new.texture.id
                              /\ old.bind_group.binding1.texture = old.texture.id

C6_ResizeIdempotent ==
    [][(ResizeStep /\ last_call.op = "resize" /\ last_call' = last_call) =>
          /\ config' = config
          /\ surface' = surface
          /\ surface'.config = config'
          /\ Len(frame_data') = Len(frame_data)
          /\ \A i \in Slots : SlotEquivalent(frame_data[i], frame_data'[i])
          /\ redraw_pending'
          /\ UNCHANGED <<phase, bind_group_layout, pipeline, frame_data_index,
                         time_start, time_last_draw, time_last_print, clock,
                         submitted, presented, stdout>>]_vars

C6_Witness ==
    /\ variant = "compute" /\ repeat_resize /\ last_call.op = "resize"
    /\ last_call.width = 0 /\ last_call.height > 1
    /\ presented >= 1

\* C7: two consecutive frame-rate readouts are at least 50 ms apart, and a
\* frame never writes more than one.
C7_ReadoutsSpaced ==
    /\ \A i \in 1..(Len(stdout) - 1) :
           stdout[i + 1].at - stdout[i].at >= PRINT_INTERVAL_MS
    /\ Len(stdout) <= redraw_calls

C7_Witness ==
    /\ Len(stdout) = 2
    /\ redraw_calls >= Len(stdout) + 2
    /\ stdout[2].at - stdout[1].at = PRINT_INTERVAL_MS + 1

RedrawCompleted == last_call.op = "redraw" /\ phase = "running"

\* C8 as stated: in the compute and the rasterized variant the positions
\* are written before the surface image is acquired.
C8_WriteBeforeAcquire ==
    (variant \in {"compute", "raster"} /\ last_call.op = "redraw"
        /\ Has(ops, "write_buffer"))
    => Before(ops, "write_buffer", "get_current_texture")

\* C8 as the code has it: a completed redraw writes the positions once,
\* before the frame's commands are submitted; the rasterized variant
\* writes before it acquires the image, the compute variant acquires the
\* image first and writes after it.
C8_WriteBeforeSubmit ==
    (variant \in {"compute", "raster"} /\ RedrawCompleted) =>
        /\ Count(ops, "write_buffer") = 1
        /\ Count(ops, "get_current_texture") = 1
        /\ Before(ops, "write_buffer", "submit")
        /\ Before(ops, "get_current_texture", "submit")
        /\ variant = "raster" => Before(ops, "write_buffer", "get_current_texture")
        /\ variant = "compute" => Before(ops, "get_current_texture", "write_buffer")
        /\ frame_data[index_trace[Len(index_trace)] + 1].points_position_buffer.contents.written

C8_Witness ==
    /\ variant = "compute" /\ RedrawCompleted
    /\ ops[1].op = "get_current_texture" /\ ops[2].op = "write_buffer"
    /\ presented = 1

\* C9: in the compute and the rasterized variant a completed redraw leaves
\* a redraw request pending, and with pending requests delivered the frames
\* keep coming: once a request is pending the run goes on until all the
\* explored frames are presented, unless an acquisition fails or exit is
\* requested.
C9_SelfScheduling ==
    /\ []((variant \in {"compute", "raster"} /\ RedrawCompleted) => redraw_pending)
    /\ (variant \in {"compute", "raster"} /\ phase = "running" /\ redraw_pending)
          ~> (phase # "running" \/ presented = MaxFrames)

C9_Witness ==
    /\ variant = "raster" /\ RedrawCompleted /\ redraw_pending
    /\ presented = MaxFrames /\ resize_calls = 0

\* C10: every resize, also one with the size unchanged, makes exactly one
\* redraw request, as its last call: after the surface is reconfigured with
\* the new size and, in the compute variant, after all slots are regenerated.
C10_ResizeRequestsRedraw ==
    last_call.op = "resize" =>
        /\ Count(ops, "request_redraw") = 1
        /\ ops[Len(ops)].op = "request_redraw"
        /\ Count(ops, "configure") = 1
        /\ Before(ops, "set_config_size", "configure")
        /\ Before(ops, "configure", "request_redraw")
        /\ variant = "compute" =>
              /\ Count(ops, "create_texture") = NUM_FRAMES
              /\ Count(ops, "create_bind_group") = NUM_FRAMES
              /\ Before(ops, "create_bind_group", "request_redraw")
        /\ redraw_pending
        /\ surface.configured /\ surface.config = config

C10_Witness ==
    /\ variant = "v1" /\ last_call.op = "resize" /\ repeat_resize
    /\ presented >= 1

\* C11: a frame whose acquisition fails, whatever the error, panics at the
\* acquisition: it submits nothing, presents nothing, leaves the slot index
\* where it was and requests no redraw; after it no frame is rendered.
C11_AcquireFailureFatal ==
    /\ []((last_call.op = "redraw" /\ last_acquire # "ok") =>
            /\ phase = "panicked"
            /\ ops[Len(ops)].op = "get_current_texture"
            /\ ~Has(ops, "submit") /\ ~Has(ops, "present")
            /\ ~Has(ops, "advance_index") /\ ~Has(ops, "request_redraw")
            /\ ~redraw_pending)
    /\ [][(RedrawStep /\ last_acquire' # "ok") =>
              UNCHANGED <<submitted, presented, frame_data_index, last_submission>>]_vars
    /\ [][phase = "panicked" =>
              UNCHANGED <<phase, redraw_calls, submitted, presented,
                          frame_data_index, redraw_pending>>]_vars

C11_Witness ==
    /\ variant = "raster" /\ phase = "panicked" /\ last_acquire = "timeout"
    /\ presented >= 1 /\ dropped # << >>

\* C12 as stated: after an acquisition that returned outdated or lost the
\* surface was reconfigured and the acquisition tried a second time, after
\* a timeout the frame was skipped, and in each case the animation goes on.
C12_TransientRecovered ==
    (variant \in {"compute", "raster"} /\ last_call.op = "redraw"
        /\ last_acquire \in {"outdated", "lost", "timeout"}) =>
        /\ phase = "running"
        /\ redraw_pending
        /\ last_acquire \in {"outdated", "lost"} =>
              /\ Has(ops, "configure")
              /\ Count(ops, "get_current_texture") = 2
        /\ last_acquire = "timeout" => ~Has(ops, "present")

\* Position of field name in the drop sequence seq.
Pos(seq, name) == CHOOSE i \in 1..Len(seq) : seq[i] = name

\* C13 as stated: in every variant the surface field is dropped before the
\* window field.
C13_SurfaceBeforeWindow ==
    dropped # << >> => Pos(dropped, "surface") < Pos(dropped, "window")

\* C14 as stated: in the compute variant whatever was acquired later in
\* Context::new is released earlier at shutdown.
C14_ReverseAcquisition ==
    (variant = "compute" /\ dropped # << >>) =>
        \A a, b \in DOMAIN AcquireRank(variant) :
            AcquireRank(variant)[a] < AcquireRank(variant)[b] =>
                Pos(dropped, b) < Pos(dropped, a)

\* C14: at shutdown the compute variant releases its resources in the
\* declaration order of the struct: bind-group layout, frame slots, queue,
\* device, pipeline, surface, window. The window, acquired first, goes last
\* and the surface right before it; the rest is not in reverse order of
\* acquisition (the layout goes before the slots made from it, the pipeline,
\* made last, after device and queue).
C14_DeclarationOrder ==
    (variant = "compute" /\ dropped # << >>) =>
        /\ SelectSeq(dropped, LAMBDA f : f \in DOMAIN AcquireRank(variant))
              = <<"bind_group_layout", "frame_data", "queue", "device",
                  "compute_pipeline", "surface", "window">>
        /\ \A a \in DOMAIN AcquireRank(variant) \ {"window"} :
              Pos(dropped, a) < Pos(dropped, "window")
        /\ Pos(dropped, "window") = Pos(dropped, "surface") + 1
        /\ Pos(dropped, "bind_group_layout") < Pos(dropped, "frame_data")
        /\ Pos(dropped, "device") < Pos(dropped, "compute_pipeline")

C14_Witness ==
    /\ variant = "compute" /\ phase = "exited" /\ dropped # << >>
    /\ presented >= 1 /\ resize_calls >= 1

\* C15: the context is created only when there is none, so at most once;
\* a later resumed event leaves all of it as it is; and it is dropped only
\* once the event loop is over.
C15_ContextOnce ==
    /\ [][last_call'.op = "new" =>
              (phase = "start" /\ last_call.op = "none")]_vars
    /\ [][Created => (Created' /\ time_start' = time_start
                        /\ variant' = variant)]_vars
    /\ [][(Created /\ last_call'.op = "resumed") =>
              UNCHANGED <<phase, config, surface, bind_group_layout, pipeline,
                          frame_data, frame_data_index, time_start,
                          time_last_draw, time_last_print, clock, next_id,
                          redraw_pending, submitted, presented, stdout,
                          last_submission, dropped>>]_vars
    /\ [](dropped # << >> => phase \in {"exited", "panicked"})

C15_Witness ==
    /\ variant = "compute" /\ last_call.op = "resumed" /\ phase = "running"
    /\ presented >= 1 /\ frame_data_index = 1 /\ redraw_pending

\* C16: the pipeline and the bind-group layout are created once, by
\* Context::new, and no resize or redraw creates, replaces or changes them;
\* every submitted frame binds that one pipeline, and every slot's bind
\* group is made with that one layout.
C16_PipelineFixed ==
    /\ [][Created => (pipeline' = pipeline
                        /\ bind_group_layout' = bind_group_layout)]_vars
    /\ [](last_call.op = "new" =>
            /\ Count(ops, "create_pipeline") = 1
            /\ variant = "compute" => Count(ops, "create_bind_group_layout") = 1)
    /\ [](last_call.op \in {"resize", "redraw"} =>
            /\ ~Has(ops, "create_pipeline")
            /\ ~Has(ops, "create_bind_group_layout"))
    /\ []((variant = "compute" /\ Created) =>
            /\ pipeline.id # 0 /\ pipeline.kind = "compute"
            /\ bind_group_layout # 0 /\ pipeline.layout = bind_group_layout
            /\ \A i \in Slots : frame_data[i].bind_group.layout = bind_group_layout)
    /\ [](last_submission # << >> =>
            /\ \E i \in 1..Len(last_submission) :
                  last_submission[i].cmd = "set_pipeline"
            /\ \A i \in 1..Len(last_submission) :
                  last_submission[i].cmd = "set_pipeline" =>
                      last_submission[i].arg = pipeline.id)

C16_Witness ==
    /\ variant = "compute" /\ RedrawCompleted /\ resize_calls >= 1
    /\ presented >= 2 /\ last_submission # << >>
    /\ config.width # INITIAL_INNER_SIZE

\* C17 as stated: in the compute and the rasterized variant the
\* presentation mode is a no-vsync one with the turbo flag and a
\* vsync-locked one without it.
C17_ModeFollowsFlag ==
    (variant \in {"compute", "raster"} /\ Created) =>
        IF args_turbo
          THEN config.present_mode \in {"AutoNoVsync", "Immediate", "Mailbox"}
          ELSE config.present_mode \in {"AutoVsync", "Fifo", "FifoRelaxed"}

\* C17: the compute variant takes its presentation mode from the turbo
\* flag at initialization (AutoNoVsync with it, AutoVsync without), the
\* rasterized variant always takes Mailbox, whatever the flag; in both, no
\* resize or redraw changes the mode or the format of the recorded or of
\* the live configuration.
C17_ModeFixedAtInit ==
    /\ [](Created =>
            /\ variant = "compute" =>
                  config.present_mode = IF args_turbo THEN "AutoNoVsync"
                                                      ELSE "AutoVsync"
            /\ variant = "raster" => config.present_mode = "Mailbox"
            /\ surface.config.present_mode = config.present_mode
            /\ surface.config.format = config.format)
    /\ [][Created =>
              /\ config'.present_mode = config.present_mode
              /\ config'.format = config.format
              /\ surface'.config.present_mode = surface.config.present_mode
              /\ surface'.config.format = surface.config.format
              /\ args_turbo' = args_turbo]_vars

C17_Witness ==
    /\ variant = "compute" /\ args_turbo /\ RedrawCompleted
    /\ config.present_mode = "AutoNoVsync"
    /\ resize_calls >= 1 /\ config.width # INITIAL_INNER_SIZE /\ presented >= 1

\* C18 as stated: in the compute and the rasterized variant the configured
\* format is the first one of the capabilities list.
C18_FirstFormat ==
    (variant \in {"compute", "raster"} /\ Created) =>
        config.format = Head(caps_formats)

\* C18: the rasterized variant configures the surface with the first
\* format of the capabilities list, whatever the list; the compute variant
\* configures it with Rgba8Unorm, whatever the list.
C18_FormatChoice ==
    Created =>
        /\ variant = "raster" => config.format = Head(caps_formats)
        /\ variant = "compute" => config.format = "Rgba8Unorm"
        /\ surface.configured => surface.config.format = config.format

C18_Witness ==
    /\ variant = "raster" /\ Created /\ Head(caps_formats) = "Bgra8UnormSrgb"
    /\ config.format = "Bgra8UnormSrgb" /\ presented >= 1

\* C19: Context::new configures the surface, with a size of at least 1 x 1,
\* and every redraw starts with the surface configured so: no image is
\* acquired from an unconfigured surface.
C19_ConfiguredBeforeAcquire ==
    /\ [](last_call.op = "new" =>
            /\ Count(ops, "configure") = 1
            /\ Before(ops, "create_surface", "configure")
            /\ surface.configured
            /\ surface.config.width >= 1 /\ surface.config.height >= 1)
    /\ [][RedrawStep =>
              /\ Created /\ surface.configured
              /\ surface.config.width >= 1 /\ surface.config.height >= 1]_vars
    /\ [](last_acquire # "none" => surface.configured)

C19_Witness ==
    /\ variant = "compute" /\ redraw_calls = 1 /\ resize_calls = 0
    /\ last_acquire = "ok" /\ surface.configured
    /\ surface.config.width = 1 /\ surface.config.height = 1

\* C20: a completed frame of the compute variant submits once, then
\* presents once, then updates the timing, then advances the slot index,
\* then requests the redraw, and nothing after that; the image it presents
\* is the one it acquired, by its single acquisition, earlier in the frame.
C20_FrameOrder ==
    (variant = "compute" /\ RedrawCompleted) =>
        /\ Count(ops, "get_current_texture") = 1
        /\ Count(ops, "submit") = 1
        /\ Count(ops, "present") = 1
        /\ Count(ops, "update_timing") = 1
        /\ Count(ops, "advance_index") = 1
        /\ Count(ops, "request_redraw") = 1
        /\ Before(ops, "get_current_texture", "submit")
        /\ Before(ops, "submit", "present")
        /\ Before(ops, "present", "update_timing")
        /\ Before(ops, "update_timing", "advance_index")
        /\ Before(ops, "advance_index", "request_redraw")
        /\ ops[Len(ops)].op = "request_redraw"
        /\ last_acquire = "ok"

C20_Witness ==
    /\ variant = "compute" /\ RedrawCompleted /\ presented = 2
    /\ submitted = 2 /\ frame_data_index = 0 /\ redraw_pending
    /\ Len(stdout) >= 1

\* C21: a completed frame of the compute or the rasterized variant writes a
\* readout exactly when more than 50 ms, not 50 ms, have passed since
\* time_last_print; time_last_print becomes the current time in the frames
\* that write one and stays in the others; time_last_draw becomes the
\* current time in every completed frame.
C21_ReadoutThreshold ==
    [][(RedrawStep /\ variant \in {"compute", "raster"} /\ phase' = "running") =>
          LET now == clock'
              emit == now - time_last_print > PRINT_INTERVAL_MS
          IN /\ emit => /\ stdout' = Append(stdout, Readout(now, time_last_draw))
                        /\ time_last_print' = now
             /\ ~emit => /\ stdout' = stdout
                         /\ time_last_print' = time_last_print
             /\ time_last_draw' = now]_vars

C21_Witness ==
    /\ variant = "compute" /\ RedrawCompleted
    /\ Len(stdout) = 1 /\ stdout[1].at = time_last_print
    /\ clock - time_last_print = PRINT_INTERVAL_MS
    /\ time_last_draw = clock

\* The commands named name of a recorded command sequence.
Commands(seq, name) == {i \in 1..Len(seq) : seq[i].cmd = name}

\* C22: a frame of the compute variant leaves every slot but the one at the
\* slot index exactly as it was, and of that slot it changes only the
\* contents of the position buffer; the commands it submits bind that
\* slot's bind group and no other, and copy from that slot's texture and no
\* other. A frame that fails changes no slot.
C22_ActiveSlotOnly ==
    [][(RedrawStep /\ variant = "compute") =>
          LET k == frame_data_index + 1
          IN /\ \A i \in Slots : i # k => frame_data'[i] = frame_data[i]
             /\ frame_data'[k].texture = frame_data[k].texture
             /\ frame_data'[k].bind_group = frame_data[k].bind_group
             /\ frame_data'[k].points_position_buffer.id
                   = frame_data[k].points_position_buffer.id
             /\ phase' = "panicked" => frame_data' = frame_data
             /\ phase' = "running" =>
                   /\ frame_data'[k].points_position_buffer.contents.written
                   /\ frame_data'[k].points_position_buffer.contents.elapsed
                         <= clock' - time_start
                   /\ frame_data'[k].points_position_buffer.contents.elapsed
                         >= clock - time_start
                   /\ Commands(last_submission', "set_bind_group") # {}
                   /\ \A c \in Commands(last_submission', "set_bind_group") :
                         last_submission'[c].arg = frame_data[k].bind_group.id
                   /\ Commands(last_submission', "copy_texture_to_texture") # {}
                   /\ \A c \in Commands(last_submission', "copy_texture_to_texture") :
                         last_submission'[c].arg = frame_data[k].texture.id]_vars

C22_Witness ==
    /\ variant = "compute" /\ RedrawCompleted /\ frame_data_index = 0
    /\ presented = 2
    /\ frame_data[1].points_position_buffer.contents.written
    /\ frame_data[2].points_position_buffer.contents.written
    /\ frame_data[2].points_position_buffer.contents.elapsed
          > frame_data[1].points_position_buffer.contents.elapsed

\* C23: in the compute variant, from Context::new on and after any resizes,
\* two different slots have different position buffers, different
\* textures, different texture views and different bind groups, and each
\* slot's bind group binds at 0 the slot's own buffer and at 1 a view of the
\* slot's own current texture.
C23_NoAliasing ==
    (variant = "compute" /\ Created) =>
        /\ Len(frame_data) = NUM_FRAMES
        /\ \A i, j \in Slots :
              i # j =>
                 /\ frame_data[i].points_position_buffer.id
                       # frame_data[j].points_position_buffer.id
                 /\ frame_data[i].texture.id # frame_data[j].texture.id
                 /\ frame_data[i].bind_group.id # frame_data[j].bind_group.id
                 /\ frame_data[i].bind_group.binding1.id
                       # frame_data[j].bind_group.binding1.id
                 /\ frame_data[i].bind_group.binding0
                       # frame_data[j].points_position_buffer.id
                 /\ frame_data[i].bind_group.binding1.texture
                       # frame_data[j].texture.id
        /\ \A i \in Slots :
              /\ frame_data[i].bind_group.binding0
                    = frame_data[i].points_position_buffer.id
              /\ frame_data[i].bind_group.binding1.texture = frame_data[i].texture.id

C23_Witness ==
    /\ variant = "compute" /\ RedrawCompleted /\ resize_calls = MaxResizes
    /\ presented >= NUM_FRAMES
    /\ frame_data[1].texture.id # frame_data[2].texture.id
    /\ frame_data[2].bind_group.binding0 = frame_data[2].points_position_buffer.id

\* C24: in the compute variant (NUM_FRAMES = 2), with the GPU completing
\* its work at any time and resizes in between, a frame that follows
\* another works on a slot other than the one of the frame before it: the
\* position buffer it writes is not the buffer that the submission of the
\* frame before it reads, whether that submission is still in flight or not.
C24_PreviousSlotUntouched ==
    [][(RedrawStep /\ variant = "compute" /\ phase' = "running"
          /\ index_trace # << >>) =>
          LET k == frame_data_index + 1
              prev == index_trace[Len(index_trace)] + 1
              written == frame_data[k].points_position_buffer.id
          IN /\ prev # k
             /\ frame_data'[k].points_position_buffer.contents.written
             /\ frame_data'[prev].points_position_buffer
                   = frame_data[prev].points_position_buffer
             /\ written # frame_data[prev].points_position_buffer.id
             /\ \A e \in 1..Len(in_flight) :
                   in_flight[e].frame = submitted => in_flight[e].buffer # written]_vars

C24_Witness ==
    /\ variant = "compute" /\ RedrawCompleted /\ resize_calls >= 1
    /\ Len(in_flight) >= 2
    /\ in_flight[Len(in_flight)].frame = submitted
    /\ in_flight[Len(in_flight) - 1].frame = submitted - 1
    /\ in_flight[Len(in_flight)].buffer # in_flight[Len(in_flight) - 1].buffer

\* C25: redraw never waits for the GPU. However many earlier submissions
\* are incomplete, a redraw can be delivered and runs to its end; a frame
\* completes none of them, it only adds its own submission behind them.
C25_NeverWaits ==
    /\ []((phase = "running" /\ redraw_calls < MaxFrames) =>
             ENABLED RedrawRequested("ok", 0, 0))
    /\ [][RedrawStep =>
             /\ ~Has(ops', "wait_idle")
             /\ Len(in_flight') >= Len(in_flight)
             /\ SubSeq(in_flight', 1, Len(in_flight)) = in_flight
             /\ phase' = "running" =>
                   /\ Len(in_flight') = Len(in_flight) + 1
                   /\ in_flight'[Len(in_flight')].frame = submitted'
                   /\ submitted' = submitted + 1
                   /\ presented' = presented + 1]_vars

C25_Witness ==
    /\ variant = "compute" /\ RedrawCompleted
    /\ submitted = MaxFrames /\ Len(in_flight) = MaxFrames
    /\ frame_data_index = 0 /\ redraw_pending

\* C26: a resize to (w, h) leaves the recorded configuration with width
\* max(w, 1) and height max(h, 1) and nothing else changed, and configures
\* the surface once, after that, with the recorded configuration; so from
\* Context::new on, after every handler, the surface's live configuration
\* is the recorded one.
C26_LiveEqualsRecorded ==
    /\ [](Created => (surface.configured /\ surface.config = config))
    /\ [][ResizeStep =>
             LET w == last_call'.width
                 h == last_call'.height
             IN /\ config' = [config EXCEPT !.width = IF w > 1 THEN w ELSE 1,
                                            !.height = IF h > 1 THEN h ELSE 1]
                /\ surface' = [configured |-> TRUE, config |-> config']
                /\ Count(ops', "set_config_size") = 1
                /\ Count(ops', "configure") = 1
                /\ Before(ops', "set_config_size", "configure")]_vars

C26_Witness ==
    /\ variant = "v1" /\ last_call = [op |-> "resize", width |-> 0, height |-> 640]
    /\ config.width = 1 /\ config.height = 640
    /\ surface.config = config /\ presented >= 1

\* C27: the compute variant has NUM_FRAMES slots from Context::new on and
\* no handler changes that number; the slot index is 0 after Context::new
\* and at least 0 and below the number of slots in every state, so
\* frame_data[frame_data_index] is always in bounds.
C27_IndexInRange ==
    /\ []((variant = "compute" /\ Created) =>
             /\ Len(frame_data) = NUM_FRAMES
             /\ frame_data_index >= 0
             /\ frame_data_index < Len(frame_data))
    /\ [](last_call.op = "new" => frame_data_index = 0)
    /\ [][Created => Len(frame_data') = Len(frame_data)]_vars

C27_Witness ==
    /\ variant = "compute" /\ RedrawCompleted /\ resize_calls >= 1
    /\ presented = 3 /\ frame_data_index = NUM_FRAMES - 1

\* C28: in the compute variant a resize leaves the slot index, every
\* slot's position buffer (the object and what it holds), the pipeline, the
\* bind-group layout and the three timestamps as they were; a redraw leaves
\* the recorded and the live surface configuration and every slot's
\* texture and bind group as they were.
C28_HandlerFrames ==
    /\ [][(ResizeStep /\ variant = "compute") =>
             /\ UNCHANGED <<frame_data_index, pipeline, bind_group_layout,
                            time_start, time_last_draw, time_last_print>>
             /\ \A i \in Slots :
                   frame_data'[i].points_position_buffer
                      = frame_data[i].points_position_buffer]_vars
    /\ [][(RedrawStep /\ variant = "compute") =>
             /\ UNCHANGED <<config, surface>>
             /\ \A i \in Slots :
                   /\ frame_data'[i].texture = frame_data[i].texture
                   /\ frame_data'[i].bind_group = frame_data[i].bind_group]_vars

C28_Witness ==
    /\ variant = "compute" /\ last_call.op = "resize" /\ phase = "running"
    /\ frame_data_index = 1 /\ Len(stdout) >= 1
    /\ frame_data[1].points_position_buffer.contents.written
    /\ frame_data[1].texture.width # INITIAL_INNER_SIZE

\* Widths and heights over which the rounding of the dispatch is checked.
DivCeilRange == 24

\* C29: a frame of the compute variant dispatches x by y by 1 workgroups
\* with 8x >= width > 8(x - 1) and 8y >= height > 8(y - 1) for the width
\* and height of the current configuration, which are those of the slot's
\* texture, and copies the extent (width, height, 1); the rounding holds for
\* every width from 1 up.
C29_DispatchCovers ==
    /\ \A w \in 1..DivCeilRange :
          /\ WORKGROUP_SIZE * DivCeil(w, WORKGROUP_SIZE) >= w
          /\ w > WORKGROUP_SIZE * (DivCeil(w, WORKGROUP_SIZE) - 1)
    /\ (variant = "compute" /\ RedrawCompleted) =>
          /\ Count(ops, "dispatch_workgroups") = 1
          /\ Count(ops, "copy_texture_to_texture") = 1
          /\ \A i \in 1..Len(ops) :
                /\ ops[i].op = "dispatch_workgroups" =>
                      LET x == ops[i].arg[1]
                          y == ops[i].arg[2]
                      IN /\ WORKGROUP_SIZE * x >= config.width
                         /\ config.width > WORKGROUP_SIZE * (x - 1)
                         /\ WORKGROUP_SIZE * y >= config.height
                         /\ config.height > WORKGROUP_SIZE * (y - 1)
                         /\ ops[i].arg[3] = 1
                /\ ops[i].op = "copy_texture_to_texture" =>
                      ops[i].arg = <<config.width, config.height, 1>>
          /\ \A k \in Slots : /\ frame_data[k].texture.width = config.width
                              /\ frame_data[k].texture.height = config.height

C29_Witness ==
    /\ variant = "compute" /\ RedrawCompleted
    /\ config.width = INITIAL_INNER_SIZE /\ config.height = 1
    /\ \E i \in 1..Len(ops) :
          /\ ops[i].op = "dispatch_workgroups"
          /\ ops[i].arg = <<(INITIAL_INNER_SIZE \div WORKGROUP_SIZE) + 1, 1, 1>>

\* C30: each slot's position buffer of the compute variant has 64 bytes, 4
\* points at a stride of 16; every write of a frame hands the queue the
\* range from offset 0 over the whole buffer and stores 4 elements, at the
\* bytes 0, 16, 32 and 48, each ending within the buffer.
C30_BufferLayout ==
    (variant = "compute" /\ Created) =>
        \A i \in Slots :
            LET b == frame_data[i].points_position_buffer
            IN /\ b.size = 64
               /\ b.size = NUM_POINTS * POINT_STRIDE
               /\ b.contents.written =>
                     /\ b.contents.offset = 0
                     /\ b.contents.len = b.size
                     /\ b.contents.elements = {0, 16, 32, 48}
                     /\ Cardinality(b.contents.elements) = NUM_POINTS
                     /\ \A e \in b.contents.elements : e + POINT_BYTES <= b.size

C30_Witness ==
    /\ variant = "compute" /\ RedrawCompleted /\ presented = MaxFrames
    /\ \A i \in Slots :
          /\ frame_data[i].points_position_buffer.contents.written
          /\ frame_data[i].points_position_buffer.contents.len = 64

\* C31: the clock never reads less than before, and then in every state
\* with a context time_start <= time_last_print <= time_last_draw <= the
\* current time; Context::new sets the three to one reading of the clock and
\* time_start never changes after it; no duration_since in a frame is an
\* Err, so the only frames that panic are those whose acquisition failed.
C31_TimestampsOrdered ==
    /\ [][clock' >= clock]_vars
    /\ [](Created =>
            /\ time_start <= time_last_print
            /\ time_last_print <= time_last_draw
            /\ time_last_draw <= clock)
    /\ [](last_call.op = "new" =>
            /\ time_start = clock
            /\ time_last_print = clock
            /\ time_last_draw = clock)
    /\ [][Created => time_start' = time_start]_vars
    /\ [](phase = "panicked" =>
            (last_call.op = "redraw" /\ last_acquire \notin {"ok", "none"}))

C31_Witness ==
    /\ variant = "compute" /\ RedrawCompleted
    /\ time_start < time_last_print
    /\ time_last_print < time_last_draw
    /\ time_last_draw = clock
    /\ Len(stdout) = 1

\* C32: at elapsed time 0 the position update yields (-1/4, -1/4),
\* (1/4, -1/4), (1/4, 1/4), (-1/4, 1/4), in this order: each coordinate half
\* of the starting position's.
C32_HalfAtZero ==
    (points_position # << >> /\ clock - time_start = 0) =>
        /\ points_position =
              <<[x |-> [num |-> -1, den |-> 4], y |-> [num |-> -1, den |-> 4]],
                [x |-> [num |-> 1, den |-> 4], y |-> [num |-> -1, den |-> 4]],
                [x |-> [num |-> 1, den |-> 4], y |-> [num |-> 1, den |-> 4]],
                [x |-> [num |-> -1, den |-> 4], y |-> [num |-> 1, den |-> 4]]>>
        /\ \A i \in 1..NUM_POINTS :
              /\ RatAdd(points_position[i].x, points_position[i].x)
                    = STARTING_POSITION[i].x
              /\ RatAdd(points_position[i].y, points_position[i].y)
                    = STARTING_POSITION[i].y

C32_Witness ==
    /\ variant = "raster" /\ clock = time_start
    /\ Len(points_position) = NUM_POINTS
    /\ points_position[1].x.den = 4

\* The squared length of a position.
NormSq(p) == RatAdd(RatMul(p.x, p.x), RatMul(p.y, p.y))

\* C33: at every elapsed time of the table, with k = (sin + 1) / 2: k is
\* at least 0 and at most 1, each position is k times the starting position
\* rotated by the angle (sine and cosine carry the same factor), and its
\* length is k times the length of the starting position (compared as
\* squares).
C33_Similarity ==
    points_position # << >> =>
        LET r == SinCos(clock - time_start)
            k == RatMul(RatAdd(r.sin, Rat(1, 1)), Rat(1, 2))
        IN /\ RatAdd(RatMul(r.sin, r.sin), RatMul(r.cos, r.cos)) = Rat(1, 1)
           /\ RatLeq(Rat(0, 1), k) /\ RatLeq(k, Rat(1, 1))
           /\ Len(points_position) = NUM_POINTS
           /\ \A i \in 1..NUM_POINTS :
                 LET p == STARTING_POSITION[i]
                     q == points_position[i]
                 IN /\ q.x = RatMul(k, RatSub(RatMul(p.x, r.cos), RatMul(p.y, r.sin)))
                    /\ q.y = RatMul(k, RatAdd(RatMul(p.x, r.sin), RatMul(p.y, r.cos)))
                    /\ NormSq(q) = RatMul(RatMul(k, k), NormSq(p))

C33_Witness ==
    /\ variant = "compute" /\ points_position # << >>
    /\ SinCos(clock - time_start).sin = Rat(-3, 5)
    /\ NormSq(points_position[1]) = Rat(1, 50)

\* C34: a window exists only once Context::new has made one, inside the
\* resumed event that stores the context; so whenever a window event can be
\* delivered the context is there, every resize, redraw and exit is handled
\* with the context present, and the unwrap of window_event never panics.
C34_ContextAtWindowEvent ==
    /\ [](window_open => ~ContextIsNone)
    /\ [](WindowEvent => Created)
    /\ [][(~window_open /\ window_open') => (ContextIsNone /\ last_call'.op = "new")]_vars
    /\ [][(ResizeStep \/ RedrawStep \/ (phase # "exited" /\ phase' = "exited")) =>
             (window_open /\ ~ContextIsNone
              /\ last_call'.op \in {"resize", "redraw", "exit"})]_vars
    /\ [](last_call.op # "unwrap_none")

C34_Witness ==
    /\ window_open /\ phase = "exited" /\ last_call.op = "exit"
    /\ resize_calls > 0 /\ redraw_calls > 0
    /\ dropped = << >>
====
